---------------------------- MODULE Spec2Model ----------------------------
(***************************************************************************)
(* Blog summarizer: the server handler POST /api/summarize and the minimal *)
(* client Home (src/src/app/page.js), and the richer client BlogSummarizer *)
(* (src/unnamed/part_000): URL validation, API-error mapping, retry with   *)
(* exponential backoff, error classification, reset and clipboard copy.    *)
(*                                                                         *)
(* Strings the code inspects character by character (the URL, the fetched  *)
(* HTML) are sequences of one-character strings.  Strings the code only    *)
(* passes around (messages, completions) are TLA+ strings.                 *)
(***************************************************************************)
EXTENDS Integers, Sequences, FiniteSets, TLC

\* JavaScript's null, for the cells and fields that otherwise hold an object
null == [isNull |-> TRUE]
\* new URL(...) throwing
failure == <<>>

(***************************************************************************)
(* Bounds of the model.                                                    *)
(***************************************************************************)
MaxTokens == 3      \* an input of the validator is at most this many tokens
MaxCalls == 2       \* handleSummarize calls in progress at the same time
MaxHtmlLen == 5     \* a generated page is at most this many characters

(***************************************************************************)
(* Program constants.                                                      *)
(***************************************************************************)
DefaultMaxRetries == 3      \* retryWithBackoff(fn, maxRetries = 3, ...)
DefaultDelay == 1000        \* retryWithBackoff(fn, ..., delay = 1000)
SliceLen == 12000           \* textContent.slice(0, 12000)

(***************************************************************************)
(* Character-level helpers (what String.prototype.trim, RegExp.test with a *)
(* literal pattern and String.prototype.slice compute).                    *)
(***************************************************************************)
WS == {" ", "\t", "\n"}

RECURSIVE DropWs(_)
DropWs(s) ==
  IF s = <<>> THEN <<>>
  ELSE IF Head(s) \in WS THEN DropWs(Tail(s)) ELSE s

RECURSIVE DropWsEnd(_)
DropWsEnd(s) ==
  IF s = <<>> THEN <<>>
  ELSE IF s[Len(s)] \in WS THEN DropWsEnd(SubSeq(s, 1, Len(s) - 1)) ELSE s

\* String.prototype.trim
Trim(s) == DropWsEnd(DropWs(s))

IsPrefix(p, s) == Len(p) <= Len(s) /\ SubSeq(s, 1, Len(p)) = p

\* /literal/.test(s): the literal occurs somewhere in s
Contains(s, p) ==
  \E i \in 1..(Len(s) - Len(p) + 1) : SubSeq(s, i, i + Len(p) - 1) = p

\* s.slice(0, n)
Slice(s, n) == SubSeq(s, 1, IF Len(s) < n THEN Len(s) ELSE n)

RECURSIVE Concat(_)
Concat(ss) == IF ss = <<>> THEN <<>> ELSE Head(ss) \o Concat(Tail(ss))

(***************************************************************************)
(* new URL(url) with no base, as the URL standard's parser runs it on the  *)
(* inputs of this model: leading and trailing whitespace is stripped, tabs *)
(* and newlines are removed, a scheme (a letter, then letters, digits, +,  *)
(* -, .) must end in ":", else the parse fails; the scheme is lower-cased; *)
(* a special scheme other than file needs a non-empty host without         *)
(* forbidden characters.  ParseUrl gives the protocol, or failure when the *)
(* constructor throws.                                                     *)
(***************************************************************************)
LowerOf ==
  ("A" :> "a") @@ ("B" :> "b") @@ ("C" :> "c") @@ ("D" :> "d") @@
  ("E" :> "e") @@ ("F" :> "f") @@ ("G" :> "g") @@ ("H" :> "h") @@
  ("I" :> "i") @@ ("J" :> "j") @@ ("K" :> "k") @@ ("L" :> "l") @@
  ("M" :> "m") @@ ("N" :> "n") @@ ("O" :> "o") @@ ("P" :> "p") @@
  ("Q" :> "q") @@ ("R" :> "r") @@ ("S" :> "s") @@ ("T" :> "t") @@
  ("U" :> "u") @@ ("V" :> "v") @@ ("W" :> "w") @@ ("X" :> "x") @@
  ("Y" :> "y") @@ ("Z" :> "z")

LowerLetters == {LowerOf[c] : c \in DOMAIN LowerOf}
Letters == DOMAIN LowerOf \cup LowerLetters
Digits == {"0", "1", "2", "3", "4", "5", "6", "7", "8", "9"}
SchemeChars == Letters \cup Digits \cup {"+", "-", "."}
HostEnd == {"/", "?", "#", "\\"}
ForbiddenHost == WS \cup {"<", ">", "^", "|", "%", "[", "]"}

Lower(c) == IF c \in DOMAIN LowerOf THEN LowerOf[c] ELSE c

RECURSIVE RemoveTabNl(_)
RemoveTabNl(s) ==
  IF s = <<>> THEN <<>>
  ELSE IF Head(s) \in {"\t", "\n"} THEN RemoveTabNl(Tail(s))
  ELSE <<Head(s)>> \o RemoveTabNl(Tail(s))

\* the length of the scheme of s (the index before its ":"), 0 when s has none
RECURSIVE SchemeLenFrom(_, _)
SchemeLenFrom(s, i) ==
  IF i > Len(s) THEN 0
  ELSE IF s[i] = ":" THEN i - 1
  ELSE IF s[i] \in SchemeChars THEN SchemeLenFrom(s, i + 1)
  ELSE 0

SchemeLen(s) ==
  IF s = <<>> \/ Head(s) \notin Letters THEN 0 ELSE SchemeLenFrom(s, 2)

RECURSIVE DropSlashes(_)
DropSlashes(s) ==
  IF s = <<>> THEN <<>>
  ELSE IF Head(s) \in {"/", "\\"} THEN DropSlashes(Tail(s)) ELSE s

RECURSIVE Authority(_)
Authority(s) ==
  IF s = <<>> \/ Head(s) \in HostEnd THEN <<>>
  ELSE <<Head(s)>> \o Authority(Tail(s))

\* the host of an authority: what follows its last "@"
RECURSIVE HostOf(_)
HostOf(a) ==
  IF \E i \in 1..Len(a) : a[i] = "@"
  THEN HostOf(SubSeq(a, (CHOOSE i \in 1..Len(a) : a[i] = "@") + 1, Len(a)))
  ELSE a

\* the host without its ":port"
RECURSIVE HostName(_)
HostName(h) ==
  IF h = <<>> \/ Head(h) = ":" THEN <<>>
  ELSE <<Head(h)>> \o HostName(Tail(h))

ValidHost(h) == \A i \in 1..Len(h) : h[i] \notin ForbiddenHost

SpecialSchemes ==
  { <<"h","t","t","p">>, <<"h","t","t","p","s">>, <<"f","t","p">>,
    <<"w","s">>, <<"w","s","s">> }
FileScheme == <<"f","i","l","e">>

ParseUrl(raw) ==
  LET s == RemoveTabNl(Trim(raw))
      n == SchemeLen(s)
      scheme == [i \in 1..n |-> Lower(s[i])]
      rest == SubSeq(s, n + 2, Len(s))
      host == HostName(HostOf(Authority(DropSlashes(rest))))
  IN  IF n = 0 THEN failure
      ELSE IF scheme \in SpecialSchemes
        THEN IF host # <<>> /\ ValidHost(host) THEN scheme \o <<":">> ELSE failure
      ELSE IF scheme = FileScheme THEN scheme \o <<":">>
      ELSE IF IsPrefix(<<"/", "/">>, rest)
        THEN IF ValidHost(HostName(HostOf(Authority(SubSeq(rest, 3, Len(rest))))))
             THEN scheme \o <<":">> ELSE failure
      ELSE scheme \o <<":">>

(***************************************************************************)
(* ERROR_TYPES and createError.  The timestamp field (the wall clock at    *)
(* creation) is read by no code and is left out of the record.             *)
(***************************************************************************)
NETWORK == "network"
VALIDATION == "validation"
SERVER == "server"
TIMEOUT == "timeout"
RATE_LIMIT == "rate_limit"
INVALID_URL == "invalid_url"
CONTENT_NOT_FOUND == "content_not_found"
UNKNOWN == "unknown"

ERROR_TYPES ==
  {NETWORK, VALIDATION, SERVER, TIMEOUT, RATE_LIMIT, INVALID_URL,
   CONTENT_NOT_FOUND, UNKNOWN}

createError(type, message, details, recoverable) ==
  [type |-> type, message |-> message, details |-> details,
   recoverable |-> recoverable]

(***************************************************************************)
(* validateUrl                                                             *)
(***************************************************************************)
HttpProtocols == { <<"h","t","t","p",":">>, <<"h","t","t","p","s",":">> }

blogPatterns ==
  { <<"m","e","d","i","u","m",".","c","o","m">>,
    <<"w","o","r","d","p","r","e","s","s",".","c","o","m">>,
    <<"b","l","o","g","s","p","o","t",".","c","o","m">>,
    <<"s","u","b","s","t","a","c","k",".","c","o","m">>,
    <<"d","e","v",".","t","o">>,
    <<"h","a","s","h","n","o","d","e",".","c","o","m">>,
    <<".","b","l","o","g">>,
    <<"/","b","l","o","g","/">>,
    <<"/","p","o","s","t","/">>,
    <<"/","a","r","t","i","c","l","e","/">> }

isLikelyBlog(u) == \E p \in blogPatterns : Contains(u, p)

MsgEnterUrl == "Please enter a URL"
MsgProtocol == "URL must use HTTP or HTTPS protocol"
MsgNotBlog == "This doesn't appear to be a blog URL. Please verify the link."
MsgInvalidFormat == "Invalid URL format. Please check your URL."

\* (a variant that reports a wrong protocol as a validation error)
validateUrl_protocolAsValidation(u) ==
  IF Trim(u) = <<>>
    THEN createError(VALIDATION, MsgEnterUrl, null, TRUE)
  ELSE IF ParseUrl(u) = failure
    THEN createError(INVALID_URL, MsgInvalidFormat,
                     [originalError |-> "Invalid URL"], TRUE)
  ELSE IF ParseUrl(u) \notin HttpProtocols
    THEN createError(VALIDATION, MsgProtocol, null, TRUE)
  ELSE IF ~isLikelyBlog(u)
    THEN createError(VALIDATION, MsgNotBlog, [url |-> u], TRUE)
  ELSE null

\* (a variant without the blog-pattern check)
validateUrl_noBlogCheck(u) ==
  IF Trim(u) = <<>>
    THEN createError(VALIDATION, MsgEnterUrl, null, TRUE)
  ELSE IF ParseUrl(u) = failure
    THEN createError(INVALID_URL, MsgInvalidFormat,
                     [originalError |-> "Invalid URL"], TRUE)
  ELSE IF ParseUrl(u) \notin HttpProtocols
    THEN createError(INVALID_URL, MsgProtocol, null, TRUE)
  ELSE null

validateUrl(u) ==
  IF Trim(u) = <<>>
    THEN createError(VALIDATION, MsgEnterUrl, null, TRUE)
  ELSE IF ParseUrl(u) = failure
    THEN createError(INVALID_URL, MsgInvalidFormat,
                     [originalError |-> "Invalid URL"], TRUE)
  ELSE IF ParseUrl(u) \notin HttpProtocols
    THEN createError(INVALID_URL, MsgProtocol, null, TRUE)
  ELSE IF ~isLikelyBlog(u)
    THEN createError(VALIDATION, MsgNotBlog, [url |-> u], TRUE)
  ELSE null

(***************************************************************************)
(* The catch block of handleSummarize: errorToSet as a function of the     *)
(* caught value.  A caught value is a record; a field it does not have is  *)
(* undefined, which is falsy and equal to no string.                       *)
(***************************************************************************)
HasField(e, f) == f \in DOMAIN e

MsgTimeout == "Request timed out. The blog might be too large or the server is busy."
MsgNetwork == "Network error. Please check your connection and try again."
MsgUnexpected == "An unexpected error occurred. Please try again."

Fetch == <<"f","e","t","c","h">>

\* (a variant that lets an error's own type win over AbortError)
errorToSet_typeFirst(err) ==
  IF HasField(err, "type")
    THEN err
  ELSE IF HasField(err, "name") /\ err.name = "AbortError"
    THEN createError(TIMEOUT, MsgTimeout, null, TRUE)
  ELSE IF HasField(err, "name") /\ err.name = "TypeError"
          /\ Contains(err.message, Fetch)
    THEN createError(NETWORK, MsgNetwork, [originalError |-> err.message], TRUE)
  ELSE createError(UNKNOWN, MsgUnexpected, [originalError |-> err.message], TRUE)

errorToSet(err) ==
  IF HasField(err, "name") /\ err.name = "AbortError"
    THEN createError(TIMEOUT, MsgTimeout, null, TRUE)
  ELSE IF HasField(err, "type")
    THEN err
  ELSE IF HasField(err, "name") /\ err.name = "TypeError"
          /\ Contains(err.message, Fetch)
    THEN createError(NETWORK, MsgNetwork, [originalError |-> err.message], TRUE)
  ELSE createError(UNKNOWN, MsgUnexpected, [originalError |-> err.message], TRUE)

(***************************************************************************)
(* retryWithBackoff: the two decisions of attempt's catch handler.         *)
(***************************************************************************)
RECURSIVE Pow2(_)
Pow2(n) == IF n = 0 THEN 1 ELSE 2 * Pow2(n - 1)

\* (a variant that compares with > and so allows one attempt more)
retriesExhausted_strict(count, maxRetries) == count > maxRetries

\* retryCount >= maxRetries (count is attempt's retryCount): reject instead of scheduling another attempt
retriesExhausted(count, maxRetries) == count >= maxRetries

\* (a variant whose exponent counts the attempt about to start)
nextDelay_nextAttempt(delay, count) == delay * Pow2(count + 1)

\* delay * Math.pow(2, retryCount)
nextDelay(delay, count) == delay * Pow2(count)

(***************************************************************************)
(* The server handler's text extraction and prompts.                       *)
(***************************************************************************)
\* what follows the match of [^>]*>? at the start of s
RECURSIVE AfterTag(_)
AfterTag(s) ==
  IF s = <<>> THEN <<>>
  ELSE IF Head(s) = ">" THEN Tail(s) ELSE AfterTag(Tail(s))

\* html.replace(/<[^>]*>?/gm, ' ')
RECURSIVE StripTags(_)
StripTags(s) ==
  IF s = <<>> THEN <<>>
  ELSE IF Head(s) = "<" THEN <<" ">> \o StripTags(AfterTag(Tail(s)))
  ELSE <<Head(s)>> \o StripTags(Tail(s))

\* .replace(/\s+/g, ' ')
RECURSIVE CollapseWs(_)
CollapseWs(s) ==
  IF s = <<>> THEN <<>>
  ELSE IF Head(s) \in WS THEN <<" ">> \o CollapseWs(DropWs(Tail(s)))
  ELSE <<Head(s)>> \o CollapseWs(Tail(s))

\* the extraction without its second replace
ExtractText_noCollapse(html) == Trim(StripTags(html))

ExtractText(html) == Trim(CollapseWs(StripTags(html)))

SummarizeInstruction == "Summarize this blog in 5 clear sentences:"
TranslateInstruction == "Translate the following summary into formal Urdu:"

promptSummary(textContent) ==
  [instruction |-> SummarizeInstruction, text |-> Slice(textContent, SliceLen)]

MsgServerError == "An error occurred while processing your request."

\* the catch clause's response
errorResponse == [status |-> 500, body |-> [error |-> MsgServerError]]

\* NextResponse.json({ summary, urduTranslation })
okResponse(summaryText, urduTranslation) ==
  [status |-> 200,
   body |-> [summary |-> summaryText, urduTranslation |-> urduTranslation]]

(***************************************************************************)
(* State.                                                                  *)
(***************************************************************************)
VARIABLES
  vIn, vDone, vOut,       \* validateUrl applied to an input
  kErr, kDone, kOut,      \* the classifier applied to a caught value
  xIn, xDone, xOut,       \* the text extraction applied to a fetched page
  \* one run of the server handler POST
  sPc,                    \* the await the handler is suspended at
  sText,                  \* textContent
  sSummary,               \* summary
  sCalls,                 \* the outbound calls made so far, in order
  sThrew,                 \* the step that threw, "none" if none did
  sResp,                  \* the response returned, null before
  \* one call of retryWithBackoff(fn)
  rPromise,               \* "none", "pending", "resolved" or "rejected"
  rSettled,               \* the value resolved with or the error rejected with
  rFlights,               \* the retryCount of each invocation of fn in flight
  rTimers,                \* the pending setTimeout callbacks of attempt
  rOutcomes,              \* how the invocations of fn settled, in order
  rCalls,                 \* the number of invocations of fn
  rDelays,                \* the delays passed to setTimeout, in order
  \* the richer client BlogSummarizer: its state cells
  url, loading, error, summary, copied, activeTab, retryCount, isOnline,
  calls,                  \* the handleSummarize calls not yet finished, oldest first
  copyWriting,            \* some clipboard write of copyToClipboard has not settled
  \* the minimal client Home: its state cells
  hUrl, hSummary, hUrduTranslation, hLoading, hError,
  hRequests               \* its handleSummarize calls not yet finished

validateVars == <<vIn, vDone, vOut>>
classifyVars == <<kErr, kDone, kOut>>
extractVars == <<xIn, xDone, xOut>>
serverVars == <<sPc, sText, sSummary, sCalls, sThrew, sResp>>
retryVars == <<rPromise, rSettled, rFlights, rTimers, rOutcomes, rCalls, rDelays>>
cellVars == <<url, loading, error, summary, copied, activeTab, retryCount, isOnline>>
clientVars == <<cellVars, calls, copyWriting>>
homeVars == <<hUrl, hSummary, hUrduTranslation, hLoading, hError, hRequests>>
vars ==
  <<validateVars, classifyVars, extractVars, serverVars, retryVars, clientVars,
    homeVars>>

\* what the steps of one part leave alone
nonValidateVars ==
  <<classifyVars, extractVars, serverVars, retryVars, clientVars, homeVars>>
nonClassifyVars ==
  <<validateVars, extractVars, serverVars, retryVars, clientVars, homeVars>>
nonExtractVars ==
  <<validateVars, classifyVars, serverVars, retryVars, clientVars, homeVars>>
nonServerVars ==
  <<validateVars, classifyVars, extractVars, retryVars, clientVars, homeVars>>
nonRetryVars ==
  <<validateVars, classifyVars, extractVars, serverVars, clientVars, homeVars>>
nonClientVars ==
  <<validateVars, classifyVars, extractVars, serverVars, retryVars, homeVars>>
nonHomeVars ==
  <<validateVars, classifyVars, extractVars, serverVars, retryVars, clientVars>>

(***************************************************************************)
(* validateUrl on bounded inputs: every concatenation of at most MaxTokens *)
(* tokens.                                                                 *)
(***************************************************************************)
Tokens ==
  { <<" ">>,
    <<"h","t","t","p","s",":","/","/">>,
    <<"H","T","T","P",":">>,
    <<"f","t","p",":","/","/">>,
    <<"m","a","i","l","t","o",":">>,
    <<"m","e","d","i","u","m",".","c","o","m">>,
    <<"e","x","a","m","p","l","e",".","c","o","m">>,
    <<"/","b","l","o","g","/">>,
    <<"/","@","x","/","y">>,
    <<"/">> }

Inputs == { Concat(ts) : ts \in UNION { [1..n -> Tokens] : n \in 0..MaxTokens } }

ValidateIdle == vIn = <<>> /\ vDone = FALSE /\ vOut = null

InitValidate == vIn \in Inputs /\ vDone = FALSE /\ vOut = null

Validate ==
  /\ ~vDone
  /\ vOut' = validateUrl(vIn)
  /\ vDone' = TRUE
  /\ UNCHANGED <<vIn, nonValidateVars>>

(***************************************************************************)
(* The classifier on bounded caught values: structured errors, JavaScript  *)
(* errors (name and message), and objects that carry a name and a type.    *)
(***************************************************************************)
ErrorNames == {"AbortError", "TypeError", "SyntaxError", "Error"}

ErrorMessages ==
  { <<"F","a","i","l","e","d"," ","t","o"," ","f","e","t","c","h">>,
    <<"L","o","a","d"," ","f","a","i","l","e","d">>,
    <<"a","b","o","r","t","e","d">> }

StructuredErrors ==
  { createError(t, "m", d, r) :
      t \in ERROR_TYPES, d \in {null, [status |-> 500]}, r \in BOOLEAN }

JsErrors == [name : ErrorNames, message : ErrorMessages]

NamedAndTyped == [name : ErrorNames, message : ErrorMessages, type : {SERVER, NETWORK}]

Caught == StructuredErrors \cup JsErrors \cup NamedAndTyped

ClassifyIdle == kErr = null /\ kDone = FALSE /\ kOut = null

InitClassify == kErr \in Caught /\ kDone = FALSE /\ kOut = null

Classify ==
  /\ ~kDone
  /\ kOut' = errorToSet(kErr)
  /\ kDone' = TRUE
  /\ UNCHANGED <<kErr, nonClassifyVars>>

(***************************************************************************)
(* The text extraction on bounded pages: every string of at most           *)
(* MaxHtmlLen characters over a small alphabet, and the sample page.       *)
(***************************************************************************)
HtmlChars == {"<", ">", " ", "\n", "a", "/"}

HelloWorldPage ==
  <<"<","h","t","m","l",">","<","b","o","d","y",">","<","p",">",
    "H","e","l","l","o"," ","W","o","r","l","d",
    "<","/","p",">","<","/","b","o","d","y",">","<","/","h","t","m","l",">">>

HelloWorld == <<"H","e","l","l","o"," ","W","o","r","l","d">>

HtmlInputs ==
  UNION { [1..n -> HtmlChars] : n \in 0..MaxHtmlLen } \cup {HelloWorldPage}

ExtractIdle == xIn = <<>> /\ xDone = FALSE /\ xOut = <<>>

InitExtract == xIn \in HtmlInputs /\ xDone = FALSE /\ xOut = <<>>

\* const textContent = html.replace(...).replace(...).trim()
Extract ==
  /\ ~xDone
  /\ xOut' = ExtractText(xIn)
  /\ xDone' = TRUE
  /\ UNCHANGED <<xIn, nonExtractVars>>

(***************************************************************************)
(* The server handler POST(req), one action per await and its settlement.  *)
(* The page fetch and the completion service are outside the program: each *)
(* call either rejects (or its result throws when read) or gives one of a  *)
(* few values.                                                             *)
(***************************************************************************)
ServerUrls == { <<"u","1">>, <<"u","2">>, <<"u","3">> }

\* the parsed request body; a body that is not JSON makes req.json() reject
Bodies == { [url |-> u] : u \in ServerUrls } \cup { [other |-> 1] }

Htmls ==
  { <<"<","h","t","m","l",">","<","b","o","d","y",">","<","p",">",
      "H","e","l","l","o"," ","W","o","r","l","d",
      "<","/","p",">","<","/","b","o","d","y",">","<","/","h","t","m","l",">">>,
    <<"<","p",">","a"," ","\n","b","<","b","r">>,
    <<"a",">","b">>,
    <<>> }

Summaries == { <<"S","1">>, <<"S","2">> }
Translations == { <<"T","1">>, <<"T","2">> }

\* (a variant that translates the article instead of the summary)
promptTranslate_fromArticle(summaryText) ==
  [instruction |-> TranslateInstruction, text |-> Slice(sText, SliceLen)]

promptTranslate(summaryText) ==
  [instruction |-> TranslateInstruction, text |-> summaryText]

ServerIdle ==
  /\ sPc = "idle" /\ sText = <<>> /\ sSummary = <<>> /\ sCalls = <<>>
  /\ sThrew = "none" /\ sResp = null

\* (a variant that still hands out the summary when the translation failed)
Catch_partial(step) ==
  /\ sThrew' = step
  /\ sResp' = IF sSummary # <<>>
                THEN [status |-> 500,
                      body |-> [error |-> MsgServerError, summary |-> sSummary]]
                ELSE errorResponse
  /\ sPc' = "done"

\* the catch clause: whatever was thrown, the fixed 500 response
Catch(step) ==
  /\ sThrew' = step
  /\ sResp' = errorResponse
  /\ sPc' = "done"

\* await req.json() rejects: the body is not JSON
PostBadJson ==
  /\ sPc = "idle"
  /\ Catch("json")
  /\ UNCHANGED <<sText, sSummary, sCalls>>
  /\ UNCHANGED nonServerVars

\* await req.json() gives the body; fetch(url, ...) is called
PostFetch ==
  /\ sPc = "idle"
  /\ \E body \in Bodies :
       sCalls' = Append(sCalls,
                   [op |-> "fetch",
                    arg |-> IF HasField(body, "url") THEN body.url ELSE <<>>])
  /\ sPc' = "fetch"
  /\ UNCHANGED <<sText, sSummary, sThrew, sResp>>
  /\ UNCHANGED nonServerVars

\* await fetch(...) rejects
FetchReject ==
  /\ sPc = "fetch"
  /\ Catch("fetch")
  /\ UNCHANGED <<sText, sSummary, sCalls>>
  /\ UNCHANGED nonServerVars

\* await fetch(...) gives a response (of any status); response.text() is called
FetchResolve ==
  /\ sPc = "fetch"
  /\ sCalls[1].arg # <<>>
  /\ sPc' = "text"
  /\ UNCHANGED <<sText, sSummary, sCalls, sThrew, sResp>>
  /\ UNCHANGED nonServerVars

\* await response.text() rejects
TextReject ==
  /\ sPc = "text"
  /\ Catch("text")
  /\ UNCHANGED <<sText, sSummary, sCalls>>
  /\ UNCHANGED nonServerVars

\* await response.text() gives html; the text is extracted and the first
\* completion is requested
TextResolve ==
  /\ sPc = "text"
  /\ \E html \in Htmls :
       /\ sText' = ExtractText(html)
       /\ sCalls' = Append(sCalls,
                      [op |-> "generateContent",
                       arg |-> promptSummary(ExtractText(html))])
  /\ sPc' = "summary"
  /\ UNCHANGED <<sSummary, sThrew, sResp>>
  /\ UNCHANGED nonServerVars

\* await model.generateContent(promptSummary) rejects, or reading its result throws
SummaryReject ==
  /\ sPc = "summary"
  /\ Catch("summary")
  /\ UNCHANGED <<sText, sSummary, sCalls>>
  /\ UNCHANGED nonServerVars

\* the first completion gives summary; the second completion is requested
SummaryResolve ==
  /\ sPc = "summary"
  /\ \E text \in Summaries :
       /\ sSummary' = text
       /\ sCalls' = Append(sCalls,
                      [op |-> "generateContent", arg |-> promptTranslate(text)])
  /\ sPc' = "translate"
  /\ UNCHANGED <<sText, sThrew, sResp>>
  /\ UNCHANGED nonServerVars

\* await model.generateContent(promptTranslate) rejects, or reading its result throws
TranslateReject ==
  /\ sPc = "translate"
  /\ Catch("translate")
  /\ UNCHANGED <<sText, sSummary, sCalls>>
  /\ UNCHANGED nonServerVars

\* the second completion gives urduTranslation; the handler returns both
TranslateResolve ==
  /\ sPc = "translate"
  /\ \E text \in Translations : sResp' = okResponse(sSummary, text)
  /\ sPc' = "done"
  /\ UNCHANGED <<sText, sSummary, sCalls, sThrew>>
  /\ UNCHANGED nonServerVars

\* the next request: the handler keeps nothing between requests
NextRequest ==
  /\ sPc = "done"
  /\ sPc' = "idle" /\ sText' = <<>> /\ sSummary' = <<>> /\ sCalls' = <<>>
  /\ sThrew' = "none" /\ sResp' = null
  /\ UNCHANGED nonServerVars

(***************************************************************************)
(* retryWithBackoff(fn, maxRetries, delay) with fn any function that       *)
(* returns a promise, as apiCall does: each invocation settles with a      *)
(* value or with an error.                                                 *)
(***************************************************************************)
FnValues == {"v1", "v2"}
FnErrors == {"e1", "e2", "e3"}

RetryIdle ==
  /\ rPromise = "none" /\ rSettled = "none" /\ rFlights = <<>> /\ rTimers = <<>>
  /\ rOutcomes = <<>> /\ rCalls = 0 /\ rDelays = <<>>

RemoveAt(q, i) == SubSeq(q, 1, i - 1) \o SubSeq(q, i + 1, Len(q))

\* retryWithBackoff is called: the promise is created and attempt(0) invokes fn
RetryCall ==
  /\ rPromise = "none"
  /\ rPromise' = "pending"
  /\ rFlights' = Append(rFlights, 0)
  /\ rCalls' = rCalls + 1
  /\ UNCHANGED <<rSettled, rTimers, rOutcomes, rDelays>>
  /\ UNCHANGED nonRetryVars

\* an invocation of fn resolves: .then(resolve)
FnResolve ==
  \E i \in 1..Len(rFlights), v \in FnValues :
    /\ rFlights' = RemoveAt(rFlights, i)
    /\ rOutcomes' = Append(rOutcomes, [ok |-> TRUE, value |-> v])
    /\ IF rPromise = "pending"
         THEN rPromise' = "resolved" /\ rSettled' = v
         ELSE UNCHANGED <<rPromise, rSettled>>
    /\ UNCHANGED <<rTimers, rCalls, rDelays>>
    /\ UNCHANGED nonRetryVars

\* an invocation of fn rejects: the .catch handler of attempt(retryCount)
FnReject ==
  \E i \in 1..Len(rFlights), e \in FnErrors :
    LET count == rFlights[i] IN
    /\ rFlights' = RemoveAt(rFlights, i)
    /\ rOutcomes' = Append(rOutcomes, [ok |-> FALSE, value |-> e])
    /\ IF retriesExhausted(count, DefaultMaxRetries)
         THEN /\ IF rPromise = "pending"
                   THEN rPromise' = "rejected" /\ rSettled' = e
                   ELSE UNCHANGED <<rPromise, rSettled>>
              /\ UNCHANGED <<rTimers, rDelays>>
         ELSE /\ rTimers' = Append(rTimers, count + 1)
              /\ rDelays' = Append(rDelays, nextDelay(DefaultDelay, count))
              /\ UNCHANGED <<rPromise, rSettled>>
    /\ UNCHANGED <<rCalls, nonRetryVars>>

\* the backoff timer as an interval: it fires and stays pending
RetryTimerFire_interval ==
  \E i \in 1..Len(rTimers) :
    /\ rFlights' = Append(rFlights, rTimers[i])
    /\ rCalls' = rCalls + 1
    /\ UNCHANGED <<rPromise, rSettled, rOutcomes, rDelays, rTimers>>
    /\ UNCHANGED nonRetryVars

\* a backoff timer fires: attempt(retryCount + 1) invokes fn
RetryTimerFire ==
  \E i \in 1..Len(rTimers) :
    /\ rFlights' = Append(rFlights, rTimers[i])
    /\ rTimers' = RemoveAt(rTimers, i)
    /\ rCalls' = rCalls + 1
    /\ UNCHANGED <<rPromise, rSettled, rOutcomes, rDelays>>
    /\ UNCHANGED nonRetryVars

(***************************************************************************)
(* Specifications.                                                         *)
(***************************************************************************)
(***************************************************************************)
(* The richer client BlogSummarizer.                                       *)
(***************************************************************************)
MsgInvalidRequest == "Invalid request. Please check your URL."
MsgNotFound == "Blog post not found or unable to access content."
MsgRateLimit == "Too many requests. Please wait a moment and try again."
MsgServer500 == "Server error. Please try again later."
MsgServer503 == "Service temporarily unavailable. Please try again later."
MsgUnexpectedStatus == "Unexpected error (status)"
MsgInvalidResponse == "Invalid response from server. Please try again."
MsgOffline == "No internet connection. Please check your network and try again."
MsgCopyFailed == "Failed to copy text to clipboard"

\* (a variant that marks a 500 as not recoverable)
handleApiError_fatal500(status, data) ==
  CASE status = 400 ->
         createError(VALIDATION,
                     IF HasField(data, "error") THEN data.error ELSE MsgInvalidRequest,
                     [status |-> status], TRUE)
    [] status = 404 ->
         createError(CONTENT_NOT_FOUND, MsgNotFound, [status |-> status], TRUE)
    [] status = 429 ->
         createError(RATE_LIMIT, MsgRateLimit,
                     IF HasField(data, "retryAfter")
                       THEN [status |-> status, retryAfter |-> data.retryAfter]
                       ELSE [status |-> status],
                     TRUE)
    [] status = 500 ->
         createError(SERVER, MsgServer500, [status |-> status], FALSE)
    [] status = 503 ->
         createError(SERVER, MsgServer503, [status |-> status], TRUE)
    [] OTHER ->
         createError(UNKNOWN,
                     IF HasField(data, "error") THEN data.error ELSE MsgUnexpectedStatus,
                     [status |-> status], TRUE)

\* handleApiError(response, data), with status = response.status; a field of
\* details that would hold undefined is left out
handleApiError(status, data) ==
  CASE status = 400 ->
         createError(VALIDATION,
                     IF HasField(data, "error") THEN data.error ELSE MsgInvalidRequest,
                     [status |-> status], TRUE)
    [] status = 404 ->
         createError(CONTENT_NOT_FOUND, MsgNotFound, [status |-> status], TRUE)
    [] status = 429 ->
         createError(RATE_LIMIT, MsgRateLimit,
                     IF HasField(data, "retryAfter")
                       THEN [status |-> status, retryAfter |-> data.retryAfter]
                       ELSE [status |-> status],
                     TRUE)
    [] status = 500 ->
         createError(SERVER, MsgServer500, [status |-> status], TRUE)
    [] status = 503 ->
         createError(SERVER, MsgServer503, [status |-> status], TRUE)
    [] OTHER ->
         createError(UNKNOWN,
                     IF HasField(data, "error") THEN data.error ELSE MsgUnexpectedStatus,
                     [status |-> status], TRUE)

\* what the fetch of one attempt can give when it is not aborted: a response
\* (its status and parsed JSON body) or a thrown JavaScript error
\* URLs the user can type
ExampleCom ==
  <<"h","t","t","p","s",":","/","/","e","x","a","m","p","l","e",".","c","o","m","/">>
MediumPost ==
  <<"h","t","t","p","s",":","/","/","m","e","d","i","u","m",".","c","o","m",
    "/","@","x","/","y">>
Garbage == <<"x">>
ClientUrls == { <<>>, Garbage, ExampleCom, MediumPost }

\* a body of the shape the richer client expects, for the blog at u
SummaryData(u) ==
  [summary |-> [title |-> u, englishSummary |-> "en", urduSummary |-> "ur"]]

\* the body the server handler of this repository sends with a 200; its
\* summary is a string, which has no title
ServerData == [summary |-> [string |-> <<"S","1">>], urduTranslation |-> <<"T","1">>]

ErrorData == errorResponse.body

Responses(u) ==
  { [status |-> 200, data |-> SummaryData(u)],
    [status |-> 200, data |-> ServerData],
    [status |-> 400, data |-> ErrorData],
    [status |-> 404, data |-> ErrorData],
    [status |-> 429, data |-> [error |-> "slow down", retryAfter |-> 30]],
    [status |-> 500, data |-> ErrorData],
    [status |-> 503, data |-> [other |-> 1]],
    [status |-> 502, data |-> [other |-> 1]] }

FetchFailed ==
  [name |-> "TypeError",
   message |-> <<"F","a","i","l","e","d"," ","t","o"," ","f","e","t","c","h">>]
JsonFailed ==
  [name |-> "SyntaxError",
   message |-> <<"U","n","e","x","p","e","c","t","e","d"," ","t","o","k","e","n">>]
Aborted == [name |-> "AbortError", message |-> <<"a","b","o","r","t","e","d">>]

\* response.ok
ResponseOk(r) == r.status >= 200 /\ r.status <= 299

\* (a variant that only asks for data.summary)
ValidSummaryData_summaryOnly(data) == HasField(data, "summary")

\* data.summary && data.summary.title && data.summary.englishSummary
ValidSummaryData(data) ==
  /\ HasField(data, "summary")
  /\ HasField(data.summary, "title")
  /\ HasField(data.summary, "englishSummary")

\* apiCall after its fetch gave response r: what it throws, null if it returns data
apiCallThrows(r) ==
  IF ~ResponseOk(r) THEN handleApiError(r.status, r.data)
  ELSE IF ~ValidSummaryData(r.data)
    THEN createError(SERVER, MsgInvalidResponse, [data |-> r.data], TRUE)
  ELSE null

\* everything one attempt of the call for u can reject with, not aborted
ApiFailures(u) ==
  ({ apiCallThrows(r) : r \in Responses(u) } \ {null}) \cup {FetchFailed, JsonFailed}

\* everything it can resolve with
ApiResults(u) == { r.data : r \in { x \in Responses(u) : apiCallThrows(x) = null } }

ClientIdle ==
  /\ url = <<>> /\ loading = FALSE /\ error = null /\ summary = null
  /\ copied = FALSE /\ activeTab = "english" /\ retryCount = 0 /\ isOnline = TRUE
  /\ calls = <<>> /\ copyWriting = FALSE

\* the component is mounted: isOnline starts as navigator.onLine
InitClient ==
  /\ url = <<>> /\ loading = FALSE /\ error = null /\ summary = null
  /\ copied = FALSE /\ activeTab = "english" /\ retryCount = 0
  /\ isOnline \in BOOLEAN
  /\ calls = <<>> /\ copyWriting = FALSE

\* a handleSummarize call in progress: the url it sends, the retry wrapper's
\* position (an attempt in flight or a backoff timer pending, and the
\* retryCount of that attempt), and its AbortController and 30 s timer
NewCall(u) ==
  [url |-> u, phase |-> "inflight", attempt |-> 0, aborted |-> FALSE, timer |-> TRUE]

\* handleSummarize, up to and including attempt(0)'s fetch
handleSummarize ==
  IF ~isOnline
    THEN /\ error' = createError(NETWORK, MsgOffline, null, TRUE)
         /\ UNCHANGED <<url, loading, summary, copied, activeTab, retryCount, isOnline>>
         /\ UNCHANGED <<calls, copyWriting, nonClientVars>>
  ELSE IF validateUrl(url) # null
    THEN /\ error' = validateUrl(url)
         /\ UNCHANGED <<url, loading, summary, copied, activeTab, retryCount, isOnline>>
         /\ UNCHANGED <<calls, copyWriting, nonClientVars>>
  ELSE /\ Len(calls) < MaxCalls
       /\ loading' = TRUE
       /\ error' = null
       /\ summary' = null
       /\ retryCount' = 0
       /\ calls' = Append(calls, NewCall(Trim(url)))
       /\ UNCHANGED <<url, copied, activeTab, isOnline>>
       /\ UNCHANGED <<copyWriting, nonClientVars>>

\* the Summarize button, disabled={loading || !url.trim() || !isOnline}
ClickSummarize ==
  /\ ~loading /\ Trim(url) # <<>> /\ isOnline
  /\ handleSummarize

\* Enter in the URL input: onKeyPress calls handleSummarize whatever the state
PressEnter == handleSummarize

\* the Try Again button, shown with a recoverable error
retryLastAction ==
  /\ error # null /\ error.recoverable
  /\ handleSummarize

\* (a variant in which only the call submitted last may display its summary)
ApiResolve_latestOnly ==
  \E i \in 1..Len(calls) :
    /\ calls[i].phase = "inflight" /\ ~calls[i].aborted
    /\ IF i = Len(calls)
         THEN \E data \in ApiResults(calls[i].url) : summary' = data.summary
         ELSE summary' = summary
    /\ retryCount' = 0
    /\ loading' = FALSE
    /\ calls' = RemoveAt(calls, i)
    /\ UNCHANGED <<url, error, copied, activeTab, isOnline>>
    /\ UNCHANGED <<copyWriting, nonClientVars>>

\* an attempt's apiCall returns data: retryWithBackoff resolves, and
\* handleSummarize continues after its await
ApiResolve ==
  \E i \in 1..Len(calls) :
    /\ calls[i].phase = "inflight" /\ ~calls[i].aborted
    /\ \E data \in ApiResults(calls[i].url) : summary' = data.summary
    /\ retryCount' = 0
    /\ loading' = FALSE
    /\ calls' = RemoveAt(calls, i)
    /\ UNCHANGED <<url, error, copied, activeTab, isOnline>>
    /\ UNCHANGED <<copyWriting, nonClientVars>>

\* (a variant in which an AbortError ends the retry loop at once)
ApiReject_abortEndsLoop ==
  \E i \in 1..Len(calls) :
    /\ calls[i].phase = "inflight"
    /\ IF retriesExhausted(calls[i].attempt, DefaultMaxRetries) \/ calls[i].aborted
         THEN /\ \E err \in IF calls[i].aborted THEN {Aborted}
                             ELSE ApiFailures(calls[i].url) :
                   error' = errorToSet(err)
              /\ retryCount' = retryCount + 1
              /\ loading' = FALSE
              /\ calls' = RemoveAt(calls, i)
         ELSE /\ calls' = [calls EXCEPT ![i].phase = "backoff"]
              /\ UNCHANGED <<error, retryCount, loading>>
    /\ UNCHANGED <<url, summary, copied, activeTab, isOnline>>
    /\ UNCHANGED <<copyWriting, nonClientVars>>

\* an attempt's apiCall throws (AbortError once the controller has aborted):
\* attempt's catch handler schedules the next attempt, or rejects, and then
\* the catch block and the finally block of handleSummarize run
ApiReject ==
  \E i \in 1..Len(calls) :
    /\ calls[i].phase = "inflight"
    /\ IF retriesExhausted(calls[i].attempt, DefaultMaxRetries)
         THEN /\ \E err \in IF calls[i].aborted THEN {Aborted}
                             ELSE ApiFailures(calls[i].url) :
                   error' = errorToSet(err)
              /\ retryCount' = retryCount + 1
              /\ loading' = FALSE
              /\ calls' = RemoveAt(calls, i)
         ELSE /\ calls' = [calls EXCEPT ![i].phase = "backoff"]
              /\ UNCHANGED <<error, retryCount, loading>>
    /\ UNCHANGED <<url, summary, copied, activeTab, isOnline>>
    /\ UNCHANGED <<copyWriting, nonClientVars>>

\* the backoff timer's callback with a controller and a 30 s timer of its own
BackoffFire_freshTimeout ==
  \E i \in 1..Len(calls) :
    /\ calls[i].phase = "backoff"
    /\ calls' = [calls EXCEPT ![i].phase = "inflight", ![i].attempt = @ + 1,
                               ![i].aborted = FALSE, ![i].timer = TRUE]
    /\ UNCHANGED <<cellVars, copyWriting, nonClientVars>>

\* (a variant that calls attempt(retryCount) again)
BackoffFire_sameAttempt ==
  \E i \in 1..Len(calls) :
    /\ calls[i].phase = "backoff"
    /\ calls' = [calls EXCEPT ![i].phase = "inflight"]
    /\ UNCHANGED <<cellVars, copyWriting, nonClientVars>>

\* a backoff timer fires: attempt(retryCount + 1) calls apiCall, which fetches
\* with the signal of the call's one controller
BackoffFire ==
  \E i \in 1..Len(calls) :
    /\ calls[i].phase = "backoff"
    /\ calls' = [calls EXCEPT ![i].phase = "inflight", ![i].attempt = @ + 1]
    /\ UNCHANGED <<cellVars, copyWriting, nonClientVars>>

\* the 30 s timer of a call fires: controller.abort().  The timers all wait
\* 30 s, so they fire in the order the calls were made.
AbortTimerFire ==
  \E i \in 1..Len(calls) :
    /\ calls[i].timer
    /\ \A j \in 1..(i - 1) : ~calls[j].timer
    /\ calls' = [calls EXCEPT ![i].timer = FALSE, ![i].aborted = TRUE]
    /\ UNCHANGED <<cellVars, copyWriting, nonClientVars>>

\* (a variant without setRetryCount(0))
resetForm_keepsRetryCount ==
  /\ url' = <<>>
  /\ summary' = null
  /\ error' = null
  /\ activeTab' = "english"
  /\ UNCHANGED <<retryCount, loading, copied, isOnline>>
  /\ UNCHANGED <<calls, copyWriting, nonClientVars>>

\* (a variant that cancels the calls in progress)
resetForm_cancelsCalls ==
  /\ url' = <<>>
  /\ summary' = null
  /\ error' = null
  /\ activeTab' = "english"
  /\ retryCount' = 0
  /\ calls' = <<>>
  /\ UNCHANGED <<loading, copied, isOnline>>
  /\ UNCHANGED <<copyWriting, nonClientVars>>

\* (a variant that also clears loading)
resetForm_clearsLoading ==
  /\ url' = <<>>
  /\ summary' = null
  /\ error' = null
  /\ activeTab' = "english"
  /\ retryCount' = 0
  /\ loading' = FALSE
  /\ UNCHANGED <<copied, isOnline>>
  /\ UNCHANGED <<calls, copyWriting, nonClientVars>>

resetForm ==
  /\ url' = <<>>
  /\ summary' = null
  /\ error' = null
  /\ activeTab' = "english"
  /\ retryCount' = 0
  /\ UNCHANGED <<loading, copied, isOnline>>
  /\ UNCHANGED <<calls, copyWriting, nonClientVars>>

\* the reset button inside the input (shown when url is not empty) and the
\* Reset button of a recoverable error
ResetClick ==
  /\ url # <<>> \/ (error # null /\ error.recoverable)
  /\ resetForm

\* onChange of the URL input
setUrl ==
  \E u \in ClientUrls :
    /\ url' = u
    /\ UNCHANGED <<loading, error, summary, copied, activeTab, retryCount, isOnline>>
    /\ UNCHANGED <<calls, copyWriting, nonClientVars>>

\* the language tabs, shown with a summary
setActiveTab ==
  /\ summary # null
  /\ \E t \in {"english", "urdu"} : activeTab' = t
  /\ UNCHANGED <<url, loading, error, summary, copied, retryCount, isOnline>>
  /\ UNCHANGED <<calls, copyWriting, nonClientVars>>

\* the Copy button, shown with a summary: copyToClipboard up to its await.
\* Any number of writes may be pending; copyWriting says that one is.
CopyClick ==
  /\ summary # null
  /\ copyWriting' = TRUE
  /\ UNCHANGED <<cellVars, calls, nonClientVars>>

\* navigator.clipboard.writeText resolves (other writes may still be pending)
CopyResolve ==
  /\ copyWriting
  /\ copyWriting' \in BOOLEAN
  /\ copied' = TRUE
  /\ UNCHANGED <<url, loading, error, summary, activeTab, retryCount, isOnline>>
  /\ UNCHANGED <<calls, nonClientVars>>

\* navigator.clipboard.writeText rejects
CopyReject ==
  /\ copyWriting
  /\ copyWriting' \in BOOLEAN
  /\ error' = createError(UNKNOWN, MsgCopyFailed,
                          [originalError |-> "NotAllowedError"], FALSE)
  /\ UNCHANGED <<url, loading, summary, copied, activeTab, retryCount, isOnline>>
  /\ UNCHANGED <<calls, nonClientVars>>

\* setTimeout(() => setCopied(false), 2000) fires.  Every setCopied(true)
\* starts such a timer, so one is pending whenever copied is true; a timer
\* that fires while copied is false changes nothing.
CopiedTimerFire ==
  /\ copied
  /\ copied' = FALSE
  /\ UNCHANGED <<url, loading, error, summary, activeTab, retryCount, isOnline>>
  /\ UNCHANGED <<calls, copyWriting, nonClientVars>>

\* the window's online and offline events
handleOnline ==
  /\ isOnline' = TRUE
  /\ UNCHANGED <<url, loading, error, summary, copied, activeTab, retryCount>>
  /\ UNCHANGED <<calls, copyWriting, nonClientVars>>

handleOffline ==
  /\ isOnline' = FALSE
  /\ UNCHANGED <<url, loading, error, summary, copied, activeTab, retryCount>>
  /\ UNCHANGED <<calls, copyWriting, nonClientVars>>

(***************************************************************************)
(* The minimal client Home.  Its cells hold strings; a field the response  *)
(* body lacks reads as undefined.                                          *)
(***************************************************************************)
\* JavaScript's undefined, a value that is none of the strings of the model
undefined == "(undefined)"

MsgHomeNotOk == "Failed to fetch summary. Check your URL and try again."
MsgHomeFetchFailed == "Failed to fetch"
MsgHomeJsonFailed == "Unexpected token < in JSON"
MsgHomeNullData == "Cannot read properties of null (reading 'summary')"

HomeUrls == {"", "u1", "u2", "u3", "u4", "u5"}

\* what await response.json() can give: the server handler's body, bodies
\* that lack a field or both, an error body sent with a 2xx status, and null
HomeData ==
  { [summary |-> s, urduTranslation |-> t] :
      s \in {"S1", "S2", ""}, t \in {"T1", "T2"} }
    \cup { [summary |-> "S1"], [urduTranslation |-> "T1"],
           [error |-> MsgServerError], null }

\* data.f
Field(data, f) == IF HasField(data, f) THEN data[f] ELSE undefined

HomeIdle ==
  /\ hUrl = "" /\ hSummary = "" /\ hUrduTranslation = ""
  /\ hLoading = FALSE /\ hError = "" /\ hRequests = <<>>

\* onChange of the input
HomeSetUrl ==
  /\ \E u \in HomeUrls : hUrl' = u
  /\ UNCHANGED <<hSummary, hUrduTranslation, hLoading, hError, hRequests>>
  /\ UNCHANGED nonHomeVars

\* handleSummarize up to its first await
HomeHandleSummarize ==
  /\ hUrl # ""
  /\ hLoading' = TRUE
  /\ hSummary' = ""
  /\ hUrduTranslation' = ""
  /\ hError' = ""
  /\ hRequests' = Append(hRequests, [url |-> hUrl, phase |-> "fetch"])
  /\ UNCHANGED <<hUrl, nonHomeVars>>

\* (a variant: the button is not disabled while loading)
HomeClick_whileLoading ==
  /\ hUrl # ""
  /\ HomeHandleSummarize

\* the button, disabled={loading || !url}
HomeClick ==
  /\ ~hLoading /\ hUrl # ""
  /\ HomeHandleSummarize

\* the catch block with err, then the finally block, of the i-th call
HomeCatch(i, message) ==
  /\ hError' = message
  /\ hLoading' = FALSE
  /\ hRequests' = RemoveAt(hRequests, i)
  /\ UNCHANGED <<hUrl, hSummary, hUrduTranslation, nonHomeVars>>

\* await fetch rejects
HomeFetchReject ==
  \E i \in 1..Len(hRequests) :
    /\ hRequests[i].phase = "fetch"
    /\ HomeCatch(i, MsgHomeFetchFailed)

\* await fetch resolves: a response that is not ok throws, an ok one is read
HomeFetchResolve ==
  \E i \in 1..Len(hRequests), ok \in BOOLEAN :
    /\ hRequests[i].phase = "fetch"
    /\ IF ~ok
         THEN HomeCatch(i, MsgHomeNotOk)
         ELSE /\ hRequests' = [hRequests EXCEPT ![i].phase = "json"]
              /\ UNCHANGED <<hUrl, hSummary, hUrduTranslation, hLoading, hError>>
              /\ UNCHANGED nonHomeVars

\* await response.json() rejects
HomeJsonReject ==
  \E i \in 1..Len(hRequests) :
    /\ hRequests[i].phase = "json"
    /\ HomeCatch(i, MsgHomeJsonFailed)

\* await response.json() gives data: the two setters, or a TypeError reading
\* data.summary when data is null; then the finally block
HomeJsonResolve ==
  \E i \in 1..Len(hRequests), data \in HomeData :
    /\ hRequests[i].phase = "json"
    /\ IF data = null
         THEN HomeCatch(i, MsgHomeNullData)
         ELSE /\ hSummary' = Field(data, "summary")
              /\ hUrduTranslation' = Field(data, "urduTranslation")
              /\ hLoading' = FALSE
              /\ hRequests' = RemoveAt(hRequests, i)
              /\ UNCHANGED <<hUrl, hError, nonHomeVars>>

NextHome ==
  \/ HomeSetUrl \/ HomeClick
  \/ HomeFetchReject \/ HomeFetchResolve \/ HomeJsonReject \/ HomeJsonResolve

NextServer ==
  \/ PostBadJson \/ PostFetch \/ FetchReject \/ FetchResolve
  \/ TextReject \/ TextResolve \/ SummaryReject \/ SummaryResolve
  \/ TranslateReject \/ TranslateResolve \/ NextRequest

NextRetry == RetryCall \/ FnResolve \/ FnReject \/ RetryTimerFire

Next ==
  \/ ClickSummarize \/ PressEnter \/ retryLastAction
  \/ ApiResolve \/ ApiReject \/ BackoffFire \/ AbortTimerFire
  \/ ResetClick \/ setUrl \/ setActiveTab
  \/ CopyClick \/ CopyResolve \/ CopyReject \/ CopiedTimerFire
  \/ handleOnline \/ handleOffline

InitValidateSpec ==
  /\ InitValidate /\ ClassifyIdle /\ ExtractIdle
  /\ ServerIdle /\ RetryIdle /\ ClientIdle /\ HomeIdle
InitClassifySpec ==
  /\ InitClassify /\ ValidateIdle /\ ExtractIdle
  /\ ServerIdle /\ RetryIdle /\ ClientIdle /\ HomeIdle
InitExtractSpec ==
  /\ InitExtract /\ ValidateIdle /\ ClassifyIdle
  /\ ServerIdle /\ RetryIdle /\ ClientIdle /\ HomeIdle
InitServerSpec ==
  /\ ServerIdle /\ ValidateIdle /\ ClassifyIdle /\ ExtractIdle
  /\ RetryIdle /\ ClientIdle /\ HomeIdle
InitRetrySpec ==
  /\ RetryIdle /\ ValidateIdle /\ ClassifyIdle /\ ExtractIdle
  /\ ServerIdle /\ ClientIdle /\ HomeIdle
Init ==
  /\ InitClient /\ ValidateIdle /\ ClassifyIdle /\ ExtractIdle
  /\ ServerIdle /\ RetryIdle /\ HomeIdle
InitHomeSpec ==
  /\ HomeIdle /\ ValidateIdle /\ ClassifyIdle /\ ExtractIdle
  /\ ServerIdle /\ RetryIdle /\ ClientIdle

SpecValidate == InitValidateSpec /\ [][Validate]_vars
SpecClassify == InitClassifySpec /\ [][Classify]_vars
SpecExtract == InitExtractSpec /\ [][Extract]_vars
SpecHome == InitHomeSpec /\ [][NextHome]_vars

\* the attempt in flight of the i-th call settles: its fetch answers, fails or
\* is aborted
SettleAt(i) ==
  /\ i \in 1..Len(calls) /\ calls[i].phase = "inflight"
  /\ ApiResolve \/ ApiReject
  /\ \/ calls' = RemoveAt(calls, i)
     \/ Len(calls') = Len(calls) /\ calls'[i].phase = "backoff"

\* the backoff timer of the i-th call fires
BackoffAt(i) ==
  /\ i \in 1..Len(calls) /\ calls[i].phase = "backoff"
  /\ BackoffFire
  /\ calls'[i].phase = "inflight"

\* every fetch settles (the 30 s timer aborts one that hangs) and every
\* backoff timer fires
Fairness ==
  \A i \in 1..MaxCalls : WF_vars(SettleAt(i)) /\ WF_vars(BackoffAt(i))

SpecLive == Init /\ [][Next]_vars /\ Fairness
SpecServer == InitServerSpec /\ [][NextServer]_vars
SpecRetry == InitRetrySpec /\ [][NextRetry]_vars
Spec == Init /\ [][Next]_vars

(***************************************************************************)
(* Properties.                                                             *)
(***************************************************************************)
TypeOf(e) == IF HasField(e, "type") THEN e.type ELSE "none"
NameOf(e) == IF HasField(e, "name") THEN e.name ELSE "none"

\* C1: whichever step of the server handler throws (reading the body, the
\* page fetch, reading the page, the summary completion, the translation
\* completion), the response is 500 with exactly the fixed error message: no
\* summary and no urduTranslation, also when the summary had been produced.
C1_FailureIsGeneric500 ==
  sThrew # "none" =>
    /\ sPc = "done"
    /\ sResp # null
    /\ sResp.status = 500
    /\ DOMAIN sResp.body = {"error"}
    /\ sResp.body.error = MsgServerError

\* the translation failed after the summary had been produced
C1_Witness ==
  /\ sThrew = "translate" /\ sSummary \in Summaries
  /\ sResp # null /\ sResp.status = 500 /\ DOMAIN sResp.body = {"error"}

\* C2: fn is invoked at most maxRetries + 1 = 4 times; the promise resolves
\* with the value of the first invocation that succeeds, and nothing is in
\* flight or scheduled after it; it rejects only after four failures in a
\* row, with the error of the fourth.
C2_BoundedRetry ==
  /\ rCalls <= DefaultMaxRetries + 1
  /\ rCalls <= 4
  /\ rPromise = "resolved" =>
       LET n == Len(rOutcomes) IN
       /\ n >= 1 /\ rCalls = n
       /\ rOutcomes[n].ok /\ rSettled = rOutcomes[n].value
       /\ \A i \in 1..(n - 1) : ~rOutcomes[i].ok
       /\ rFlights = <<>> /\ rTimers = <<>>
  /\ rPromise = "rejected" =>
       /\ Len(rOutcomes) = 4 /\ rCalls = 4
       /\ \A i \in 1..4 : ~rOutcomes[i].ok
       /\ rSettled = rOutcomes[4].value
       /\ rFlights = <<>> /\ rTimers = <<>>

\* four failures in a row: rejected with the last error
C2_Witness ==
  /\ rPromise = "rejected" /\ rCalls = 4
  /\ rOutcomes[1].value = "e1" /\ rOutcomes[4].value = "e2" /\ rSettled = "e2"

FailedTwiceThenSucceeded ==
  /\ rPromise = "resolved" /\ Len(rOutcomes) = 3
  /\ ~rOutcomes[1].ok /\ ~rOutcomes[2].ok /\ rOutcomes[3].ok

\* C3 as stated: fn fails twice then succeeds; the promise resolves with the
\* third attempt's value and the delay scheduled after the second failure is
\* 1000 * 2^2 = 4000 ms.
C3_Original ==
  FailedTwiceThenSucceeded =>
    /\ rSettled = rOutcomes[3].value
    /\ rDelays[2] = 1000 * Pow2(2)
    /\ rDelays[2] = 4000

\* C3 (amended): fn fails twice then succeeds; the promise resolves with the
\* third attempt's value and the delay scheduled after the second failure is
\* 1000 * 2^1 = 2000 ms (the exponent is the index of the attempt that
\* failed, counted from 0).
C3_DelayBeforeThirdAttempt ==
  FailedTwiceThenSucceeded =>
    /\ rSettled = rOutcomes[3].value
    /\ Len(rDelays) = 2
    /\ rDelays[2] = 1000 * Pow2(1)
    /\ rDelays[2] = 2000

C3_Witness ==
  /\ FailedTwiceThenSucceeded
  /\ rSettled = "v2" /\ rOutcomes[3].value = "v2" /\ rDelays[2] = 2000

\* C4: the catch block maps every caught value to one error, by precedence:
\* name AbortError gives timeout; otherwise a value carrying a type is kept
\* as it is; otherwise a TypeError whose message contains "fetch" gives
\* network; everything else gives unknown.
C4_ClassifierPrecedence ==
  kDone =>
    LET abort == NameOf(kErr) = "AbortError"
        typed == HasField(kErr, "type")
        transport == NameOf(kErr) = "TypeError" /\ Contains(kErr.message, Fetch)
    IN  /\ TypeOf(kOut) \in ERROR_TYPES
        /\ abort => TypeOf(kOut) = TIMEOUT
        /\ (~abort /\ typed) => kOut = kErr
        /\ (~abort /\ ~typed /\ transport) => TypeOf(kOut) = NETWORK
        /\ (~abort /\ ~typed /\ ~transport) => TypeOf(kOut) = UNKNOWN

\* a value named AbortError that also carries a type: the name wins
C4_Witness ==
  /\ kDone /\ NameOf(kErr) = "AbortError" /\ TypeOf(kErr) = SERVER
  /\ TypeOf(kOut) = TIMEOUT

\* C5 as stated: every non-empty input that fails URL parsing gives
\* invalid_url, and so does every valid URL whose scheme is not http(s).
C5_Original ==
  vDone =>
    /\ (vIn # <<>> /\ ParseUrl(vIn) = failure) => TypeOf(vOut) = INVALID_URL
    /\ (ParseUrl(vIn) # failure /\ ParseUrl(vIn) \notin HttpProtocols)
         => TypeOf(vOut) = INVALID_URL

\* C5 (amended): every input that is not empty after trimming and fails URL
\* parsing gives invalid_url, and so does every valid URL whose scheme is not
\* http(s); an input of whitespace only gives validation, like the empty one.
C5_InvalidUrl ==
  vDone =>
    /\ (Trim(vIn) # <<>> /\ ParseUrl(vIn) = failure) => TypeOf(vOut) = INVALID_URL
    /\ (ParseUrl(vIn) # failure /\ ParseUrl(vIn) \notin HttpProtocols)
         => TypeOf(vOut) = INVALID_URL
    /\ Trim(vIn) = <<>> => TypeOf(vOut) = VALIDATION

\* a valid URL with another scheme, here mailto:, was validated
C5_Witness ==
  /\ vDone /\ ParseUrl(vIn) = <<"m","a","i","l","t","o",":">>
  /\ TypeOf(vOut) = INVALID_URL

\* C6: a valid http(s) URL that matches no blog pattern gives a validation
\* error (so https://example.com/ does), one that matches a pattern gives no
\* error (so https://medium.com/@x/y does).
C6_BlogPattern ==
  vDone =>
    /\ ParseUrl(vIn) \in HttpProtocols =>
         IF \E p \in blogPatterns : Contains(vIn, p)
           THEN vOut = null
           ELSE TypeOf(vOut) = VALIDATION /\ vOut.message = MsgNotBlog
    /\ vIn = ExampleCom => TypeOf(vOut) = VALIDATION
    /\ vIn = MediumPost => vOut = null

C6_Witness == vDone /\ vIn = ExampleCom /\ TypeOf(vOut) = VALIDATION

\* C7 as stated: the blog-pattern check does not block the request: when
\* handleSummarize runs online with a valid http(s) URL that matches no blog
\* pattern, the POST is still issued (a call with a fetch in flight begins).
NotBlogUrl(u) == ParseUrl(u) \in HttpProtocols /\ ~isLikelyBlog(u)

C7_SoftWarning ==
  [][ ((ClickSummarize \/ PressEnter \/ retryLastAction)
         /\ isOnline /\ NotBlogUrl(url) /\ Len(calls) < MaxCalls)
      => (/\ Len(calls') = Len(calls) + 1
          /\ calls'[Len(calls')].phase = "inflight") ]_vars

IsResetState ==
  /\ url = <<>> /\ summary = null /\ error = null
  /\ activeTab = "english" /\ retryCount = 0

\* C8: resetForm sets url to '', summary and error to null, activeTab to
\* 'english' and retryCount to 0 whatever the state before, and leaves
\* loading, copied and isOnline as they were; called again in the state it
\* produced, it changes nothing.
C8_Reset ==
  /\ [][ ResetClick =>
           /\ IsResetState'
           /\ UNCHANGED <<loading, copied, isOnline>> ]_vars
  /\ [](IsResetState => ~ENABLED <<resetForm>>_vars)

\* a state only a reset leaves behind: a summary was shown and copied, and
\* now there is no summary, no error and no call in progress
C8_Witness ==
  /\ IsResetState /\ copied /\ ~loading /\ calls = <<>>

\* C9: an error that is not recoverable comes from the clipboard-copy
\* failure only: the errors of validateUrl, handleApiError, the offline
\* check and the catch block are all recoverable (they offer Try Again).
C9_OnlyCopyFailureIsFatal ==
  (error # null /\ ~error.recoverable) =>
    (error.message = MsgCopyFailed /\ error.type = UNKNOWN)

\* the copy failed while a summary was on display
C9_Witness ==
  /\ error # null /\ ~error.recoverable /\ error.message = MsgCopyFailed
  /\ summary # null

\* C10: a successful request has made exactly three outbound calls: the page
\* fetch, the summary completion, the translation completion, in that order;
\* the translation prompt holds the summary the first completion returned;
\* no translation is requested when an earlier step failed.
IsTranslateCall(c) ==
  c.op = "generateContent" /\ c.arg.instruction = TranslateInstruction

C10_CallOrder ==
  /\ (sResp # null /\ sResp.status = 200) =>
       /\ Len(sCalls) = 3
       /\ sCalls[1].op = "fetch"
       /\ sCalls[2].op = "generateContent"
       /\ sCalls[2].arg = [instruction |-> SummarizeInstruction,
                           text |-> Slice(sText, SliceLen)]
       /\ IsTranslateCall(sCalls[3])
       /\ sCalls[3].arg.text = sSummary
       /\ sCalls[3].arg.text = sResp.body.summary
  /\ sThrew \in {"json", "fetch", "text", "summary"} =>
       \A i \in 1..Len(sCalls) : ~IsTranslateCall(sCalls[i])
  /\ \A i \in 1..Len(sCalls) : (sCalls[i].op = "fetch") <=> (i = 1)
  /\ Len(sCalls) <= 3

C10_Witness ==
  /\ sResp # null /\ sResp.status = 200 /\ Len(sCalls) = 3
  /\ sResp.body.summary = <<"S","2">> /\ sText = <<"H","e","l","l","o"," ","W","o","r","l","d">>


\* C11: the text extraction (replace tags, collapse whitespace, trim) gives,
\* for every page, a text with no '<' character, no two adjacent whitespace
\* characters and no leading or trailing whitespace; for the page
\* <html><body><p>Hello World</p></body></html> it gives "Hello World".
C11_Extractor ==
  xDone =>
    /\ \A i \in 1..Len(xOut) : xOut[i] # "<"
    /\ \A i \in 1..(Len(xOut) - 1) : ~(xOut[i] \in WS /\ xOut[i + 1] \in WS)
    /\ xOut # <<>> => (xOut[1] \notin WS /\ xOut[Len(xOut)] \notin WS)
    /\ xIn = HelloWorldPage => xOut = HelloWorld

\* a page with a tag and a trailing run of whitespace was extracted to the
\* one character between them
C11_Witness ==
  /\ xDone
  /\ xIn = <<"<", ">", "a", " ", "\n">>
  /\ xOut = <<"a">>

\* C12: within one retryWithBackoff call at most one invocation of fn is in
\* flight at any time, no backoff timer is pending while an invocation is in
\* flight, and a further invocation starts only when every earlier one has
\* settled, the latest as a failure, and the backoff timer it scheduled fires.
C12_SingleFlight ==
  /\ [](Len(rFlights) + Len(rTimers) <= 1)
  /\ [][ (rCalls' = rCalls + 1 /\ rCalls > 0) =>
          /\ rFlights = <<>>
          /\ Len(rOutcomes) = rCalls
          /\ ~rOutcomes[rCalls].ok
          /\ Len(rTimers) = 1 /\ rTimers' = <<>>
          /\ Len(rFlights') = 1 ]_vars

\* the third invocation is in flight after two failures
C12_Witness ==
  /\ rCalls = 3 /\ Len(rFlights) = 1 /\ rTimers = <<>>
  /\ Len(rOutcomes) = 2 /\ rPromise = "pending"

\* C13: when the 30-second abort timer has fired with an attempt in flight,
\* the retry wrapper schedules no further attempt because of the abort: the
\* aborted attempt's rejection is never followed by a backoff, it ends the
\* call, and the error reported is a timeout error.
C13_TimeoutNotRetried ==
  [][ \A i \in 1..Len(calls) :
        (calls[i].phase = "inflight" /\ calls[i].aborted) =>
          /\ Len(calls') = Len(calls) => calls'[i].phase # "backoff"
          /\ (Len(calls') < Len(calls) /\ calls' = RemoveAt(calls, i)) =>
                (error' # null /\ error'.type = TIMEOUT) ]_vars

\* C14: one handleSummarize call has one abort controller and one 30-second
\* timer, created with the call before its first attempt and shared by all its
\* attempts: the timer is pending or has fired, never both and never re-armed,
\* a retried attempt starts with the timer and the signal as they were, and
\* once the timer has fired the signal stays aborted for every later attempt
\* of the call.
C14_OneTimerPerCall ==
  /\ [](\A i \in 1..Len(calls) : calls[i].aborted = ~calls[i].timer)
  /\ [][ Len(calls') = Len(calls) + 1 =>
          /\ calls'[Len(calls')].attempt = 0
          /\ calls'[Len(calls')].timer /\ ~calls'[Len(calls')].aborted ]_vars
  /\ [][ \A i \in 1..Len(calls) :
          Len(calls') = Len(calls) =>
            /\ calls'[i].attempt # calls[i].attempt =>
                  /\ calls'[i].timer = calls[i].timer
                  /\ calls'[i].aborted = calls[i].aborted
            /\ calls[i].aborted => calls'[i].aborted ]_vars

\* the second retry of a call is in flight with the signal already aborted
C14_Witness ==
  \E i \in 1..Len(calls) :
    /\ calls[i].phase = "inflight" /\ calls[i].attempt = 2
    /\ calls[i].aborted /\ ~calls[i].timer

\* C15: reset does not cancel pending work.  resetForm leaves every request in
\* flight and every scheduled backoff retry as it was, and when a
\* handleSummarize call finishes while the url is empty its continuation
\* still sets summary or error; so a state with url = '' and the summary or
\* the error of the abandoned request is reachable.
C15_ResetKeepsPendingWork ==
  /\ [][ ResetClick => calls' = calls ]_vars
  /\ [][ (url = <<>> /\ Len(calls') < Len(calls)) =>
          /\ url' = <<>>
          /\ \/ summary' # null /\ retryCount' = 0
             \/ error' # null /\ retryCount' = retryCount + 1 ]_vars

\* the form is empty as reset left it, no call is in progress, and the summary
\* of the abandoned request for MediumPost is displayed
C15_Witness ==
  /\ url = <<>> /\ error = null /\ retryCount = 0 /\ activeTab = "english"
  /\ calls = <<>> /\ ~loading
  /\ summary # null /\ summary.title = MediumPost

\* what the continuation of the call c can display when the call finishes
FinishErrors(c) ==
  { errorToSet(e) : e \in ApiFailures(c.url) \cup {Aborted} }

\* C16: nothing prevents a new summarize action while an earlier
\* handleSummarize call still has a request in flight or a backoff timer
\* pending (Enter with the device online and a url that passes validation
\* starts a further call next to the active ones and clears the display), so
\* two calls can be active at once; and whenever a
\* call finishes, whatever its position among the active calls, its own
\* result replaces the displayed summary or error.
C16_OverlappingCalls ==
  /\ [][ (calls # <<>> /\ isOnline /\ validateUrl(url) = null /\ PressEnter) =>
          /\ Len(calls') = Len(calls) + 1
          /\ calls'[Len(calls')].phase = "inflight"
          /\ \A i \in 1..Len(calls) : calls'[i] = calls[i]
          /\ loading' /\ summary' = null /\ error' = null ]_vars
  /\ [][ Len(calls') < Len(calls) =>
          \E i \in 1..Len(calls) :
            /\ calls' = RemoveAt(calls, i)
            /\ loading' = FALSE
            /\ \/ summary' = SummaryData(calls[i].url).summary /\ error' = error
               \/ error' \in FinishErrors(calls[i]) /\ summary' = summary ]_vars

\* two calls are active, the older waiting for its backoff timer and the newer
\* with its first request in flight
C16_Witness ==
  /\ Len(calls) = 2
  /\ calls[1].phase = "backoff" /\ calls[1].attempt = 1
  /\ calls[2].phase = "inflight" /\ calls[2].attempt = 0
  /\ loading

\* the error apiCall throws for the 200 response of this repository's server
InvalidResponseError ==
  createError(SERVER, MsgInvalidResponse, [data |-> ServerData], TRUE)

\* C17: the richer client cannot use the 200 response of this repository's
\* server ({ summary: string, urduTranslation: string }): apiCall throws the
\* `server` error 'Invalid response from server' for it, so no attempt
\* resolves with it and the summary cell never holds its summary; the error
\* is displayed only by a call whose retries are exhausted, that is after 4
\* POSTs (attempts 0 to 3), and leaves error.type = 'server'.
C17_ServerShapeRejected ==
  /\ [](/\ apiCallThrows([status |-> 200, data |-> ServerData]) = InvalidResponseError
        /\ \A c \in 1..Len(calls) : ServerData \notin ApiResults(calls[c].url)
        /\ summary # ServerData.summary
        /\ summary # null =>
              (HasField(summary, "title") /\ HasField(summary, "englishSummary")))
  /\ [][ (error' = InvalidResponseError /\ error # InvalidResponseError) =>
          /\ error'.type = SERVER
          /\ \E i \in 1..Len(calls) :
               /\ calls[i].phase = "inflight"
               /\ calls[i].attempt = DefaultMaxRetries
               /\ calls' = RemoveAt(calls, i)
          /\ summary' = summary /\ ~loading' ]_vars

\* a call has ended on the server's 200 response: the `server` error is
\* displayed and no summary is
C17_Witness ==
  /\ error = InvalidResponseError
  /\ summary = null /\ calls = <<>> /\ ~loading /\ retryCount = 1

\* C18: the retry wrapper retries every failure whatever its type.  A call
\* ends in a displayed error only when its attempt 3 (the fourth) has failed;
\* the attempts of a call are made one by one, each after a backoff that
\* follows the failure of the one before; and nothing else ends the loop: a
\* failed attempt below 3 is followed by a backoff, for a non-OK response of
\* any status, an invalid body, a transport failure and an abort alike.
C18_EveryFailureRetried ==
  /\ [][ (Len(calls') < Len(calls) /\ retryCount' = retryCount + 1) =>
          \E i \in 1..Len(calls) :
            /\ calls' = RemoveAt(calls, i)
            /\ calls[i].phase = "inflight"
            /\ calls[i].attempt = DefaultMaxRetries
            /\ error' \in FinishErrors(calls[i]) ]_vars
  /\ [][ \A i \in 1..Len(calls) :
          (Len(calls') = Len(calls) /\ calls'[i].phase # calls[i].phase) =>
            \/ /\ calls[i].phase = "inflight" /\ calls'[i].phase = "backoff"
               /\ calls[i].attempt < DefaultMaxRetries
               /\ calls'[i].attempt = calls[i].attempt
               /\ UNCHANGED <<error, retryCount, loading, summary>>
            \/ /\ calls[i].phase = "backoff" /\ calls'[i].phase = "inflight"
               /\ calls'[i].attempt = calls[i].attempt + 1 ]_vars
  /\ [](\A i \in 1..Len(calls) : calls[i].attempt \in 0..DefaultMaxRetries)

\* a call whose last answer was a 404 has ended, after its fourth attempt, in
\* the content_not_found error
C18_Witness ==
  /\ error # null /\ error.type = CONTENT_NOT_FOUND
  /\ calls = <<>> /\ ~loading /\ retryCount = 1

\* the condition of the 'Retry attempt n/3' indicator
RetryIndicatorShown == retryCount > 0 /\ error = null

\* C19: in every reachable state of the richer client retryCount > 0 implies
\* that error is not null, so the 'Retry attempt n/3' indicator (retryCount >
\* 0 and no error) is never displayed.
C19_RetryIndicatorNeverShown ==
  /\ retryCount > 0 => error # null
  /\ ~RetryIndicatorShown

\* two overlapping calls have both failed: retryCount is 2 and the error of
\* the second is displayed
C19_Witness ==
  /\ retryCount = 2 /\ error # null /\ error.recoverable
  /\ calls = <<>> /\ ~loading

\* C20: in every reachable state of the richer client, if a request to
\* /api/summarize is in flight or a backoff retry timer is pending, then
\* loading is true.
C20_LoadingWhilePending ==
  (\E i \in 1..Len(calls) : calls[i].phase \in {"inflight", "backoff"}) => loading

\* the oldest call in progress finishes: its continuation sets loading to
\* false with summary or error set
HeadFinishes ==
  /\ calls # <<>> /\ calls' = Tail(calls)
  /\ loading' = FALSE
  /\ summary' # null \/ error' # null

\* C21: every handleSummarize call that passed the online check and the URL
\* validation eventually finishes, setting loading to false with summary or
\* error set, whatever the outcomes of its attempts, when every fetch settles
\* and every timer fires: no call stays in progress for ever (either no call
\* is in progress infinitely often, or the oldest call in progress finishes
\* infinitely often), and every call that finishes does so with loading
\* false and summary or error set.
C21_CallTerminates ==
  /\ ([]<>(calls = <<>>)) \/ ([]<><<HeadFinishes>>_vars)
  /\ [][ Len(calls') < Len(calls) =>
          (loading' = FALSE /\ (summary' # null \/ error' # null)) ]_vars

\* a call has finished on a timeout after all its attempts
C21_Witness ==
  /\ calls = <<>> /\ ~loading /\ summary = null /\ retryCount = 1
  /\ error # null /\ error.type = TIMEOUT

\* C22: in the minimal client Home, after any sequence of URL edits, button
\* clicks and responses, error is non-empty only when summary and
\* urduTranslation are empty; the button being disabled while loading, at
\* most one request is in flight, loading is true exactly while it is, and
\* all three cells are empty while it is.
C22_ErrorExcludesResult ==
  /\ hError # "" => (hSummary = "" /\ hUrduTranslation = "")
  /\ Len(hRequests) <= 1
  /\ hLoading = (hRequests # <<>>)
  /\ hLoading => (hSummary = "" /\ hUrduTranslation = "" /\ hError = "")

\* after a displayed result and a new submission, the not-ok error is
\* displayed alone
C22_Witness ==
  /\ hError = MsgHomeNotOk /\ hSummary = "" /\ hUrduTranslation = ""
  /\ ~hLoading /\ hRequests = <<>> /\ hUrl = "u2"

=============================================================================
